---------------------------- MODULE Spec2Model ----------------------------
\* A model of foxy_fetch's request lifecycle: the callback codec
\* (bot/presentation/keyboard.py, bot/helpers.py), the download callback
\* handler (bot/handlers/callback_handlers/download_callbacks.py), the
\* orchestrator (bot/services/youtube_service.py), the external executor
\* (bot/external/downloader.py, bot/external/ffmpeg_processor.py) and the
\* progress bridge (bot/handlers/status_updater.py).
EXTENDS Integers, Sequences, FiniteSets, TLC

VARIABLES
    \* ---- callback codec ----
    _url_cache,        \* keyboard.py:49   hash key -> URL (process-wide dict)
    issued,            \* the buttons shown so far: [data, url, selector]
    decoded,           \* the last decode: [data, result]
    \* ---- handler, orchestrator, executor ----
    concurrent,        \* whether the framework runs handlers concurrently
    req,               \* per button press: the handler coroutine's locals
    downloads,         \* the downloads table: download_id -> row
    disk,              \* the files that exist in DOWNLOAD_DIR
    \* ---- progress bridge ----
    last_update_time,  \* status_updater.py:63
    last_percentage,   \* status_updater.py:64
    now,               \* time.time(), in ticks of half a second
    stream,            \* the progress events delivered so far (summary)
    edits,             \* the percentages of the updates scheduled so far
    message,           \* the status message and the edits scheduled for it
    \* ---- format selection ----
    selection,         \* one download_media call: selector, source, expression, result
    info               \* one get_video_info call: what the extractor did, result

codecVars == <<_url_cache, issued, decoded>>
handlerVars == <<concurrent, req, downloads, disk>>
progressVars == <<last_update_time, last_percentage, now, stream, edits, message>>
formatVars == <<selection, info>>
vars == <<codecVars, handlerVars, progressVars, formatVars>>

\* Python's None (or the empty string: both are falsy) where an id is expected
NoId == <<>>

\* ------------------------------------------------------------------------
\* Text.  A piece of text whose characters matter (an id, a hash key) is a
\* tuple of characters; fixed ASCII literals are strings.  "U+0663" stands
\* for the one character ARABIC-INDIC DIGIT THREE, which Python's \d matches
\* and which takes two bytes in UTF-8.
\* ------------------------------------------------------------------------
AsciiDigits == {"0", "1", "2", "3", "4", "5", "6", "7", "8", "9"}

UnicodeDigits == AsciiDigits \cup {"U+0663"}

YtIdChars ==
    AsciiDigits \cup {"d", "Q", "w", "W", "g", "X", "c", "P", "L", "_", "-"}

Utf8Len(c) == IF c = "U+0663" THEN 2 ELSE 1

RECURSIVE Utf8Bytes(_)
Utf8Bytes(s) == IF s = <<>> THEN 0 ELSE Utf8Len(Head(s)) + Utf8Bytes(Tail(s))

Repeat(c, n) == [i \in 1..n |-> c]

\* the longest prefix of s made of characters of class
RECURSIVE TakeWhile(_, _)
TakeWhile(s, class) ==
    IF s = <<>> \/ Head(s) \notin class THEN <<>>
    ELSE <<Head(s)>> \o TakeWhile(Tail(s), class)

\* ------------------------------------------------------------------------
\* URLs: "https://" host path id tail
\* ------------------------------------------------------------------------
Url(host, path, id, tail) == [host |-> host, path |-> path, id |-> id, tail |-> tail]

\* None where a URL is expected
NoUrl == Url("", "", <<>>, "")

YtId == <<"d", "Q", "w", "4", "w", "9", "W", "g", "X", "c", "Q">>
TweetId == <<"1", "2", "3", "4", "5", "6", "7", "8", "9", "0",
             "1", "2", "3", "4", "5", "6", "7", "8", "9">>

U_yt_watch == Url("www.youtube.com", "/watch?v=", YtId, "")
U_yt_short == Url("youtu.be", "/", YtId, "")
U_yt_time == Url("www.youtube.com", "/watch?v=", YtId, "&t=10")
U_yt_list == Url("www.youtube.com", "/playlist?list=", <<"P", "L", "1", "2", "3">>, "")
U_tw_status == Url("x.com", "/user/status/", TweetId, "")
U_tw_canon == Url("twitter.com", "/i/web/status/", TweetId, "")
U_tw_fit == Url("x.com", "/user/status/", Repeat("1", 35), "")
U_tw_long == Url("x.com", "/user/status/", Repeat("1", 36), "")
U_tw_arabic == Url("x.com", "/user/status/", Repeat("U+0663", 35), "")
U_tiktok == Url("www.tiktok.com", "/@u/video/", <<"1", "2", "3">>, "")
U_vimeo_a == Url("vimeo.com", "/", <<"1", "0", "5", "3", "2", "4", "9", "3", "9">>, "")
U_vimeo_b == Url("vimeo.com", "/", <<"1", "0", "6", "2", "2", "9", "2", "0", "5">>, "")

Urls ==
    {U_yt_watch, U_yt_short, U_yt_time, U_yt_list, U_tw_status, U_tw_canon,
     U_tw_fit, U_tw_long, U_tw_arabic, U_tiktok, U_vimeo_a, U_vimeo_b}

\* helpers.py:110-135: the first domain, in this order, that occurs in the
\* lower-cased URL names the platform
HasDomain(url, domains) ==
    \E d \in domains : url.host = d \/ url.host = "www." \o d

get_platform_name(url) ==
    IF HasDomain(url, {"youtube.com", "youtu.be"}) THEN "YouTube"
    ELSE IF HasDomain(url, {"tiktok.com"}) THEN "TikTok"
    ELSE IF HasDomain(url, {"twitter.com", "x.com"}) THEN "Twitter/X"
    ELSE IF HasDomain(url, {"instagram.com"}) THEN "Instagram"
    ELSE IF HasDomain(url, {"vimeo.com"}) THEN "Vimeo"
    ELSE "Video Platform"

\* helpers.py:36-44: ...youtube.com/(watch?v=|embed/|shorts/|live/|v/)
\* ([0-9A-Za-z_-]{11})([?&]|$)  or  ...youtu.be/([0-9A-Za-z_-]{11})([?&]|$)
IdThenDelimiter(url) ==
    /\ Len(TakeWhile(url.id, YtIdChars)) >= 11
    /\ Len(url.id) = 11
    /\ url.tail \in {"", "&t=10", "?si=1"}

extract_youtube_video_id(url) ==
    IF /\ \/ /\ HasDomain(url, {"youtube.com"})
             /\ url.path \in {"/watch?v=", "/embed/", "/shorts/", "/live/", "/v/"}
          \/ /\ HasDomain(url, {"youtu.be"})
             /\ url.path = "/"
       /\ IdThenDelimiter(url)
    THEN SubSeq(url.id, 1, 11)
    ELSE NoId

\* helpers.py:66-74: (twitter.com|x.com)/\w+/status/(\d+) or /i/web/status/(\d+)
extract_twitter_tweet_id(url) ==
    IF /\ HasDomain(url, {"twitter.com", "x.com"})
       /\ url.path \in {"/user/status/", "/i/web/status/"}
       /\ TakeWhile(url.id, UnicodeDigits) # <<>>
    THEN TakeWhile(url.id, UnicodeDigits)
    ELSE NoId

\* helpers.py:76-89
extract_platform_id(url) ==
    IF HasDomain(url, {"youtube.com", "youtu.be"}) THEN extract_youtube_video_id(url)
    ELSE IF HasDomain(url, {"twitter.com", "x.com"}) THEN extract_twitter_tweet_id(url)
    ELSE NoId

\* platforms/__init__.py:15-28: the registry, in matching order; the last
\* entry, the generic platform, matches every URL
PLATFORMS ==
    <<[name |-> "YouTube", domains |-> {"youtube.com", "youtu.be"}],
      [name |-> "TikTok", domains |-> {"tiktok.com"}],
      [name |-> "Twitter/X", domains |-> {"twitter.com", "x.com"}],
      [name |-> "Instagram", domains |-> {"instagram.com"}],
      [name |-> "Facebook", domains |-> {"facebook.com", "fb.watch"}],
      [name |-> "Vimeo", domains |-> {"vimeo.com"}],
      [name |-> "Dailymotion", domains |-> {"dailymotion.com"}],
      [name |-> "Twitch", domains |-> {"twitch.tv"}],
      [name |-> "Reddit", domains |-> {"reddit.com"}],
      [name |-> "Streamable", domains |-> {"streamable.com"}],
      [name |-> "Imgur", domains |-> {"imgur.com"}],
      [name |-> "Video Platform", domains |-> {}]>>

\* platforms/*.py matches_url: ^(https?://)?(www\.)?(domains)/.+$
matches_url(platform, url) ==
    platform.name = "Video Platform" \/ HasDomain(url, platform.domains)

\* platforms/__init__.py:30-35: the name of the first platform that matches
get_platform_for_url(url) ==
    LET matching == {i \in 1..Len(PLATFORMS) : matches_url(PLATFORMS[i], url)}
    IN  PLATFORMS[CHOOSE i \in matching : \A j \in matching : i <= j].name

\* platforms/youtube.py:37-38, platforms/twitter.py:37-38, base.py:38-40
supports_id_extraction(platform_name) == platform_name \in {"YouTube", "Twitter/X"}

\* platforms/youtube.py:21-31 and platforms/twitter.py:21-31 search the URL
\* with the patterns of helpers.py:36-39 and 66-69; base.py:25-27 and
\* tiktok.py:32-34 return None
extract_id(platform_name, url) ==
    IF platform_name = "YouTube" THEN extract_youtube_video_id(url)
    ELSE IF platform_name = "Twitter/X" THEN extract_twitter_tweet_id(url)
    ELSE NoId

\* the reconstruct_url of base.py:29-31 in every platform: the ID as it is
reconstruct_url_as_is(platform_name, platform_id) == Url("", "", platform_id, "")

\* platforms/youtube.py:33-35, platforms/twitter.py:33-35, base.py:29-31
reconstruct_url(platform_name, platform_id) ==
    IF platform_name = "YouTube"
    THEN Url("www.youtube.com", "/watch?v=", platform_id, "")
    ELSE IF platform_name = "Twitter/X"
    THEN Url("twitter.com", "/i/web/status/", platform_id, "")
    ELSE Url("", "", platform_id, "")

\* the short name without the replacement of '/': platform_name.lower()
PlatformShort_lower(name) ==
    CASE name = "YouTube" -> "youtube"
      [] name = "Twitter/X" -> "twitter/x"
      [] name = "TikTok" -> "tiktok"
      [] name = "Instagram" -> "instagram"
      [] name = "Vimeo" -> "vimeo"
      [] OTHER -> "video platform"

\* keyboard.py:30  platform_name.lower().replace('/', '_').replace(' ', '_')
PlatformShort(name) ==
    CASE name = "YouTube" -> "youtube"
      [] name = "Twitter/X" -> "twitter_x"
      [] name = "TikTok" -> "tiktok"
      [] name = "Instagram" -> "instagram"
      [] name = "Vimeo" -> "vimeo"
      [] OTHER -> "video_platform"

\* hashlib.md5(video_url.encode()).hexdigest()[:12] of the URLs above
Md5Hex12(url) ==
    CASE url = U_yt_watch -> <<"7","5","1","7","0","f","c","2","3","0","c","d">>
      [] url = U_yt_short -> <<"b","e","9","f","3","3","9","2","1","5","1","2">>
      [] url = U_yt_time -> <<"a","b","f","6","1","0","6","b","5","d","1","5">>
      [] url = U_yt_list -> <<"a","4","3","e","d","7","a","c","f","5","0","8">>
      [] url = U_tw_status -> <<"8","f","b","1","6","f","d","8","6","0","7","0">>
      [] url = U_tw_canon -> <<"4","3","0","4","d","a","1","d","6","d","e","0">>
      [] url = U_tw_fit -> <<"e","7","4","0","a","5","5","1","b","1","d","b">>
      [] url = U_tw_long -> <<"5","7","6","5","4","3","2","5","c","6","c","5">>
      [] url = U_tw_arabic -> <<"f","2","2","7","a","b","c","0","2","9","9","6">>
      [] url = U_tiktok -> <<"2","1","b","b","7","f","f","7","b","9","8","1">>
      [] url = U_vimeo_a -> <<"7","7","4","4","b","2","8","a","4","9","6","4">>
      [] url = U_vimeo_b -> <<"7","7","4","4","b","2","8","a","4","9","6","4">>

HashKeys == {Md5Hex12(u) : u \in Urls}

\* ------------------------------------------------------------------------
\* Callback codec (bot/presentation/keyboard.py, callback_handlers/utils.py)
\* Callback data is the list of its ':'-separated fields; the first field,
\* the action part, is <<prefix, selector>> for the text prefix \o selector.
\* ------------------------------------------------------------------------
PAYLOAD_LIMIT == 45

CALLBACK_DATA_LIMIT == 64

EmptyCache == [k \in {} |-> NoUrl]

\* an encoder that marks the payload of a reversible identifier with "id"
create_callback_payload_id(video_url) ==
    LET platform_name == get_platform_name(video_url)
        platform_id == extract_platform_id(video_url)
    IN  IF platform_name \in {"YouTube", "Twitter/X"} /\ platform_id # NoId
        THEN <<"id", platform_id>>
        ELSE <<"hash", Md5Hex12(video_url)>>

\* keyboard.py:24-46: the payload, as <<platform or "hash", body>>
create_callback_payload(video_url) ==
    LET platform_name == get_platform_name(video_url)
        platform_id == extract_platform_id(video_url)
        platform_short == PlatformShort(platform_name)
    IN  IF /\ platform_name \in {"YouTube", "Twitter/X"}
           /\ platform_id # NoId
           /\ Len(platform_short) + 1 + Len(platform_id) <= PAYLOAD_LIMIT
        THEN <<platform_short, platform_id>>
        ELSE <<"hash", Md5Hex12(video_url)>>

\* an encoder that computes the hash payload and stores nothing
CacheAfterEncode_no_store(cache, video_url) == cache

\* keyboard.py:39-44: the cache after create_callback_payload(video_url)
CacheAfterEncode(cache, video_url) ==
    LET payload == create_callback_payload(video_url)
    IN  IF payload[1] = "hash"
        THEN [k \in DOMAIN cache \cup {payload[2]} |->
                 IF k = payload[2] THEN video_url ELSE cache[k]]
        ELSE cache

\* a resolver that reads the cache with _url_cache.get(hash_key) and returns
\* what it finds, None for a hash the cache does not hold
resolve_callback_payload_get(payload, cache) ==
    IF Len(payload) >= 2 /\ payload[1] = "hash"
    THEN [ok |-> TRUE,
          url |-> IF payload[2] \in DOMAIN cache THEN cache[payload[2]] ELSE NoUrl]
    ELSE IF Len(payload) >= 2
    THEN IF payload[1] = "youtube"
         THEN [ok |-> TRUE, url |-> Url("www.youtube.com", "/watch?v=", payload[2], "")]
         ELSE IF payload[1] \in {"twitter_x", "twitter"}
         THEN [ok |-> TRUE, url |-> Url("twitter.com", "/i/web/status/", payload[2], "")]
         ELSE [ok |-> FALSE, url |-> NoUrl]
    ELSE [ok |-> FALSE, url |-> NoUrl]

\* keyboard.py:51-79: [ok, url]; ok = FALSE stands for the ValueError
resolve_callback_payload(payload, cache) ==
    IF Len(payload) >= 2 /\ payload[1] = "hash"
    THEN IF payload[2] \in DOMAIN cache
         THEN [ok |-> TRUE, url |-> cache[payload[2]]]
         ELSE [ok |-> FALSE, url |-> NoUrl]
    ELSE IF Len(payload) >= 2
    THEN IF payload[1] = "youtube"
         THEN [ok |-> TRUE, url |-> Url("www.youtube.com", "/watch?v=", payload[2], "")]
         ELSE IF payload[1] \in {"twitter_x", "twitter"}
         THEN [ok |-> TRUE, url |-> Url("twitter.com", "/i/web/status/", payload[2], "")]
         ELSE [ok |-> FALSE, url |-> NoUrl]
    ELSE [ok |-> FALSE, url |-> NoUrl]

NoParse == [ok |-> FALSE, selector |-> "", url |-> NoUrl]

\* utils.py:7-29: [ok, selector, url]; ok = FALSE stands for the None result
parse_download_callback(data, cache) ==
    IF Len(data) < 2 THEN NoParse
    ELSE IF data[1][1] # "q_" THEN NoParse
    ELSE LET resolved == resolve_callback_payload(Tail(data), cache)
         IN  IF resolved.ok
             THEN [ok |-> TRUE, selector |-> data[1][2], url |-> resolved.url]
             ELSE NoParse

\* f"q_{selector}:{callback_payload}"
CallbackData(selector, payload) == <<(<<"q_", selector>>)>> \o payload

\* the UTF-8 length of callback data, which the chat transport limits
ByteLen(data) ==
    Len(data[1][1]) + Len(data[1][2])
    + (IF Len(data) >= 2 THEN 1 + Len(data[2]) ELSE 0)
    + (IF Len(data) >= 3 THEN 1 + Utf8Bytes(data[3]) ELSE 0)

\* message_handlers.py:54,67: the selectors a keyboard can carry
Heights == {480, 720}

HeightSelector(height) == "h" \o ToString(height)

\* keyboard.py:81-131: the callback data of the buttons, as [selector, data]
create_quality_options_keyboard(video_url, option_heights, best_height) ==
    LET callback_payload == create_callback_payload(video_url)
        Button(selector) ==
            [selector |-> selector, data |-> CallbackData(selector, callback_payload)]
    IN  {Button("best")}
        \cup {Button(HeightSelector(h)) : h \in option_heights \ {best_height}}
        \cup {Button("audio"), Button("gif")}

\* ------------------------------------------------------------------------
\* Codec operations
\* ------------------------------------------------------------------------
MaxKeyboards == 2

ShownUrls == {b.url : b \in issued}

NoDecode == [data |-> <<>>, result |-> NoParse]

\* message_handlers.py -> create_quality_options_keyboard: the buttons of one
\* keyboard are shown for video_url
ShowKeyboard(video_url, option_heights, best_height) ==
    /\ video_url \in ShownUrls \/ Cardinality(ShownUrls) < MaxKeyboards
    /\ _url_cache' = CacheAfterEncode(_url_cache, video_url)
    /\ issued' = issued \cup
           {[url |-> video_url, selector |-> b.selector, data |-> b.data] :
               b \in create_quality_options_keyboard(video_url, option_heights, best_height)}
    /\ decoded' = NoDecode

\* callback data that no keyboard of this process carries: a button of an
\* earlier process, the wire form of the design notes, a raw-URL payload,
\* data without ':'
ForeignData ==
    {CallbackData("best", <<"hash", Md5Hex12(U_tiktok)>>),
     CallbackData("h720", <<"id", YtId>>),
     CallbackData("best", <<"https", <<"/", "/", "v", "i", "m", "e", "o">>>>),
     CallbackData("gif", <<>>)}

\* a button is pressed and its data decoded (parse_download_callback)
Decode(data) ==
    /\ decoded' = [data |-> data, result |-> parse_download_callback(data, _url_cache)]
    /\ UNCHANGED <<_url_cache, issued>>

\* the process is restarted: the module-level cache starts empty again, the
\* buttons stay in the chats
Restart ==
    /\ _url_cache # EmptyCache
    /\ _url_cache' = EmptyCache
    /\ decoded' = NoDecode
    /\ UNCHANGED issued

KeyboardInputs == {<<Heights, 720>>}

\* ------------------------------------------------------------------------
\* Files of DOWNLOAD_DIR.  downloader.py:53 names the download
\* '%(title)s [%(id)s].%(ext)s': the base is fixed by the video, which the
\* model identifies with the URL that is downloaded.
\* ------------------------------------------------------------------------
Path(base, ext) == [base |-> base, ext |-> ext]

NoPath == Path(NoUrl, "")

\* ffmpeg_processor.py:47-49
PalettePath(video_path) == Path(video_path.base, "_palette.png")

GifPath(video_path) == Path(video_path.base, "gif")

\* a cleanup that removes nothing
cleanup_file_keeps(files, file_path) == files

\* helpers.py:137-146
cleanup_file(files, file_path) == files \ {file_path}

\* the extensions of the file the extractor may write, and of the path it
\* may report, per mode
WrittenExts(quality_selector) ==
    IF quality_selector = "audio" THEN {"m4a", "opus"}
    ELSE {"mp4", "webm", "3gp"} \cup (IF quality_selector = "gif" THEN {"gif"} ELSE {})

ReportedExts(quality_selector) ==
    IF quality_selector = "audio" THEN {"m4a"}
    ELSE {"mp4"} \cup (IF quality_selector = "gif" THEN {"gif"} ELSE {})

\* downloader.py:118-121, in probing order
ProbeExtensions(quality_selector) ==
    IF quality_selector = "audio"
    THEN <<"m4a", "mp3", "aac", "ogg", "wav">>
    ELSE <<"mp4", "webm", "mkv", "avi", "mov", "flv">>

\* downloader.py:64-82: whether download_media knows the selector
ValidSelector(quality_selector) ==
    quality_selector \in {"audio", "gif", "best"} \cup {HeightSelector(h) : h \in Heights}

\* downloader.py:113-132: the path download_sync settles on, NoPath for the
\* DownloaderError of line 130
ResolvePath(files, found_path, quality_selector) ==
    IF found_path \in files THEN found_path
    ELSE LET extensions == ProbeExtensions(quality_selector)
             hits == {i \in 1..Len(extensions) : Path(found_path.base, extensions[i]) \in files}
         IN  IF hits = {} THEN NoPath
             ELSE Path(found_path.base, extensions[CHOOSE i \in hits : \A j \in hits : i <= j])

\* config.py:55,65
DEFAULT_MAX_UPLOAD_MB == 50

MAX_UPLOAD_SIZE_BYTES == DEFAULT_MAX_UPLOAD_MB * 1024 * 1024

FileSizes == {MAX_UPLOAD_SIZE_BYTES, MAX_UPLOAD_SIZE_BYTES + 1}

\* ------------------------------------------------------------------------
\* The downloads table (database.py:155-200) and the handler's locals
\* ------------------------------------------------------------------------
MaxPresses == 2

Presses == 1..MaxPresses

Terminal == {"completed", "failed"}

\* database.py:167-168: the row of a new record
NewRow(url, selector) ==
    [url |-> url, selector |-> selector, history |-> <<"requested">>,
     title |-> FALSE, file_size |-> 0]

\* database.py:175-190
update_download_status(rows, download_id, status, file_size) ==
    [rows EXCEPT ![download_id].history = Append(@, status),
                 ![download_id].file_size = file_size]

\* database.py:193-199
set_download_title(rows, download_id) ==
    [rows EXCEPT ![download_id].title = TRUE]

\* ffmpeg_processor.py:36  error_message[:200]
DIAG_PREFIX == 200

\* run_ffmpeg_command that puts the whole diagnostic output in the message
run_ffmpeg_command_whole(outcome, stderr_len) ==
    IF outcome = "no_ffmpeg" THEN [returncode |-> -1, message |-> 0]
    ELSE IF outcome \in {"failed", "failed_partial"}
    THEN [returncode |-> 1, message |-> stderr_len]
    ELSE [returncode |-> 0, message |-> 0]

\* ffmpeg_processor.py:19-40: the exit code of the process (-1 when ffmpeg
\* is not installed and no process ran) and the number of characters of its
\* diagnostic output that the ConversionError carries
run_ffmpeg_command(outcome, stderr_len) ==
    IF outcome = "no_ffmpeg" THEN [returncode |-> -1, message |-> 0]
    ELSE IF outcome \in {"failed", "failed_partial"}
    THEN [returncode |-> 1, message |-> IF stderr_len < DIAG_PREFIX
                                        THEN stderr_len ELSE DIAG_PREFIX]
    ELSE [returncode |-> 0, message |-> 0]

\* before the extractor has run
NoOutcome == [kind |-> "", written |-> "", reported |-> "", prepared |-> ""]

IdleReq ==
    [pc |-> "idle", data |-> <<>>, selector |-> "", url |-> NoUrl,
     download_record_id |-> 0,
     final_file_path |-> NoPath,      \* download_media's local
     downloaded_path |-> NoPath,      \* process_and_download's local
     processed_path |-> NoPath,       \* process_and_download's final_media_path
     final_media_path |-> NoPath,     \* handle_download_callback's local
     file_size |-> 0,
     error |-> "",                    \* the exception being handled
     cause |-> "",                    \* the exception a step of process_and_download raised
     returned |-> FALSE,              \* process_and_download returned a path
     created |-> {},                  \* the files written for this request
     calls |-> <<>>,                  \* the executor and transport calls made so far
     outcome |-> NoOutcome,           \* what the extractor wrote and reported
     ffmpeg |-> run_ffmpeg_command("no_ffmpeg", 0),  \* how the last ffmpeg run ended
     refused |-> FALSE,               \* the state store refused a write of this request
     handle |-> "",                   \* the file object opened for the upload: "open", "closed"
     status_text |-> ""]              \* the last text scheduled for the status message

InFlight(r) == req[r].pc \notin {"idle", "done"}

Step(r, label) == req[r].pc = label

\* youtube_service.py:105-119: the except blocks of process_and_download;
\* the request record and the files after the exception left the function
ServiceExcept(q, files, exception) ==
    LET files1 == IF q.downloaded_path # NoPath
                  THEN cleanup_file(files, q.downloaded_path) ELSE files
        files2 == IF q.processed_path # NoPath /\ q.processed_path # q.downloaded_path
                  THEN cleanup_file(files1, q.processed_path) ELSE files1
        raised == IF exception \in {"DownloaderError", "ConversionError", "ServiceError"}
                  THEN exception ELSE "ServiceError"
    IN  [req |-> [q EXCEPT !.pc = "service_error", !.error = raised],
         disk |-> files2]

Update(r, q) == req' = [req EXCEPT ![r] = q]

\* the request and the files after process_and_download raised exception
Raise(r, q, files, exception) ==
    LET after == ServiceExcept(q, files, exception)
    IN  /\ Update(r, [after.req EXCEPT !.cause = exception])
        /\ disk' = after.disk

\* youtube_service.py:87-93: the except clauses around the conversion pass
\* ConversionError and FileNotFoundError on and replace any other exception
\* by a ConversionError that names its type
ConversionExcept(exception) ==
    IF exception \in {"ConversionError", "FileNotFoundError"}
    THEN exception ELSE "ConversionError"

\* the request and the files after exception was raised inside the
\* conversion block of process_and_download
RaiseInConversion(r, q, files, exception) ==
    LET after == ServiceExcept(q, files, ConversionExcept(exception))
    IN  /\ Update(r, [after.req EXCEPT !.cause = exception])
        /\ disk' = after.disk

\* ------------------------------------------------------------------------
\* handle_download_callback (download_callbacks.py:20-95), one action per
\* stretch of code between two suspension points
\* ------------------------------------------------------------------------

\* download_callbacks.py:42-67: the press is logged, its data parsed and the
\* download record created.  store is what happens at the state store:
\* "log_fails" when logging the interaction raises, "create_fails" when the
\* store refuses the new record, "type_error" when the call of
\* download_callbacks.py:129-133 does not fit the method it reaches
\* (_create_download_record returns None in both cases), "ok" otherwise.
\* The call passes video_url= and platform=; the DatabaseManager of
\* database.py:155-161 declares youtube_url and no platform, so with it every
\* press that decodes takes "type_error"; "ok" is the store the handler is
\* written against.
Press(r, data, store) ==
    /\ Step(r, "idle")
    /\ \A o \in Presses : o < r => ~Step(o, "idle")
    /\ concurrent \/ \A o \in Presses : ~InFlight(o)
    /\ LET parsed == parse_download_callback(data, _url_cache)
           q == [req[r] EXCEPT !.data = data]
       IN  IF store = "log_fails"
           THEN /\ Update(r, [q EXCEPT !.pc = "finally", !.error = "Exception"])
                /\ UNCHANGED downloads
           ELSE IF ~parsed.ok
           THEN /\ Update(r, [q EXCEPT !.pc = "finally", !.status_text = "invalid"])
                /\ UNCHANGED downloads
           ELSE IF store \in {"create_fails", "type_error"}
           THEN /\ Update(r, [q EXCEPT !.pc = "finally", !.status_text = "untracked",
                                       !.cause = IF store = "type_error" THEN "TypeError" ELSE "",
                                       !.selector = parsed.selector, !.url = parsed.url])
                /\ UNCHANGED downloads
           ELSE /\ downloads' = Append(downloads, NewRow(parsed.url, parsed.selector))
                /\ Update(r, [q EXCEPT !.pc = "download_started",
                                       !.selector = parsed.selector, !.url = parsed.url,
                                       !.download_record_id = Len(downloads) + 1])
    /\ UNCHANGED disk

\* process_and_download without the write of line 63: the download is
\* invoked and 'download_started' is not persisted
PersistDownloadStarted_no_persist(r, ok) ==
    /\ Step(r, "download_started")
    /\ LET q == [req[r] EXCEPT !.status_text = "starting"]
       IN  IF ~ok
           THEN /\ Raise(r, [q EXCEPT !.refused = TRUE], disk, "Exception")
                /\ UNCHANGED downloads
           ELSE /\ UNCHANGED downloads
                /\ LET q1 == [q EXCEPT !.calls = Append(@, "download_media")]
                   IN  IF ValidSelector(q.selector)
                       THEN Update(r, [q1 EXCEPT !.pc = "downloading"]) /\ UNCHANGED disk
                       ELSE Raise(r, q1, disk, "ValueError")

\* youtube_service.py:62-63 and downloader.py:53-82
PersistDownloadStarted(r, ok) ==
    /\ Step(r, "download_started")
    /\ LET q == [req[r] EXCEPT !.status_text = "starting"]
       IN  IF ~ok
           THEN /\ Raise(r, [q EXCEPT !.refused = TRUE], disk, "Exception")
                /\ UNCHANGED downloads
           ELSE /\ downloads' = update_download_status(downloads, q.download_record_id,
                                                       "download_started", 0)
                /\ LET q1 == [q EXCEPT !.calls = Append(@, "download_media")]
                   IN  IF ValidSelector(q.selector)
                       THEN Update(r, [q1 EXCEPT !.pc = "downloading"]) /\ UNCHANGED disk
                       ELSE Raise(r, q1, disk, "ValueError")

\* what the extractor does in the worker thread: it fails before or after
\* it has written part of the file, returns no info, or writes a file and
\* returns an info_dict.  Of the info_dict the extensions of two paths
\* matter: reported is the first of requested_downloads[0]['filepath'],
\* 'filepath' and '_filename' that is there ("" when none is), prepared
\* what prepare_filename makes of the output template
ExtractorOutcomes(quality_selector) ==
    {[NoOutcome EXCEPT !.kind = "download_error"],
     [NoOutcome EXCEPT !.kind = "download_error", !.written = "part"],
     [NoOutcome EXCEPT !.kind = "no_info"]}
    \cup UNION {{[kind |-> "written", written |-> w, reported |-> p,
                  prepared |-> t] :
                     p \in ReportedExts(quality_selector) \cup {""},
                     t \in {w} \cup ReportedExts(quality_selector)} :
                 w \in WrittenExts(quality_selector)}

\* downloader.py:100-111: found_path, the first name the info_dict gives
FoundExt(outcome) ==
    IF outcome.reported # "" THEN outcome.reported ELSE outcome.prepared

\* downloader.py:94-140: download_sync in the worker thread
ExtractorRuns(r, outcome) ==
    /\ Step(r, "downloading")
    /\ outcome \in ExtractorOutcomes(req[r].selector)
    /\ LET q == req[r]
           written == Path(q.url, outcome.written)
           files == IF outcome.written # "" THEN disk \cup {written} ELSE disk
           resolved == IF outcome.kind = "written"
                       THEN ResolvePath(files, Path(q.url, FoundExt(outcome)), q.selector)
                       ELSE NoPath
       IN  /\ disk' = files
           /\ Update(r, [q EXCEPT !.pc = "download_done",
                                  !.final_file_path = resolved,
                                  !.outcome = outcome,
                                  !.created = IF outcome.written # ""
                                              THEN @ \cup {written} ELSE @,
                                  !.error = IF resolved = NoPath
                                            THEN "DownloaderError" ELSE ""])
    /\ UNCHANGED downloads

\* downloader.py:142-159 and youtube_service.py:65-67
DownloadReturns(r) ==
    /\ Step(r, "download_done")
    /\ LET q == [req[r] EXCEPT !.final_file_path = NoPath, !.error = "",
                               !.outcome = NoOutcome]
           final_file_path == req[r].final_file_path
       IN  IF req[r].error = "" /\ final_file_path \in disk
           THEN /\ Update(r, [q EXCEPT !.pc = "title", !.downloaded_path = final_file_path])
                /\ UNCHANGED disk
           ELSE Raise(r, q, cleanup_file(disk, final_file_path), "DownloaderError")
    /\ UNCHANGED downloads

\* youtube_service.py:68-72
SetTitle(r, ok) ==
    /\ Step(r, "title")
    /\ LET q == req[r]
       IN  IF ~ok
           THEN /\ Raise(r, [q EXCEPT !.refused = TRUE], disk, "Exception")
                /\ UNCHANGED downloads
           ELSE /\ downloads' = set_download_title(downloads, q.download_record_id)
                /\ Update(r, [q EXCEPT !.processed_path = q.downloaded_path,
                                       !.pc = IF q.selector = "gif"
                                              THEN "conversion_started" ELSE "processed",
                                       !.status_text = IF q.selector = "gif"
                                                       THEN "converting" ELSE @])
                /\ UNCHANGED disk

\* youtube_service.py:73
PersistConversionStarted(r, ok) ==
    /\ Step(r, "conversion_started")
    /\ LET q == req[r]
       IN  IF ~ok
           THEN /\ Raise(r, [q EXCEPT !.refused = TRUE], disk, "Exception")
                /\ UNCHANGED downloads
           ELSE /\ downloads' = update_download_status(downloads, q.download_record_id,
                                                       "conversion_started", 0)
                /\ Update(r, [q EXCEPT !.pc = "converting"])
                /\ UNCHANGED disk

\* youtube_service.py:80-93 and ffmpeg_processor.py:42-50
PersistConverting(r, ok) ==
    /\ Step(r, "converting")
    /\ LET q == req[r]
       IN  IF ~ok
           THEN /\ RaiseInConversion(r, [q EXCEPT !.refused = TRUE], disk, "Exception")
                /\ UNCHANGED downloads
           ELSE /\ downloads' = update_download_status(downloads, q.download_record_id,
                                                       "converting", 0)
                /\ LET q1 == [q EXCEPT !.calls = Append(@, "convert_to_gif")]
                   IN  IF q.downloaded_path \in disk
                       THEN Update(r, [q1 EXCEPT !.pc = "pass1"]) /\ UNCHANGED disk
                       ELSE RaiseInConversion(r, q1, disk, "FileNotFoundError")

\* pass 1 without the finally clause: a failing pass leaves what it wrote
PaletteGen_no_finally(r, outcome) ==
    /\ Step(r, "pass1")
    /\ outcome \in {"no_ffmpeg", "failed", "failed_partial", "ok"}
    /\ outcome = "ok" => req[r].downloaded_path \in disk
    /\ \E stderr_len \in {0, DIAG_PREFIX, DIAG_PREFIX + 1} :
       LET q == req[r]
           palette_path == PalettePath(q.downloaded_path)
           gif_path == GifPath(q.downloaded_path)
           written == IF outcome \in {"ok", "failed_partial"} THEN {palette_path} ELSE {}
           q1 == [q EXCEPT !.created = @ \cup written,
                           !.ffmpeg = run_ffmpeg_command(outcome, stderr_len),
                           !.calls = IF outcome = "no_ffmpeg" THEN @
                                     ELSE Append(@, "palettegen")]
       IN  IF outcome = "ok"
           THEN /\ disk' = disk \cup written
                /\ Update(r, [q1 EXCEPT !.pc = "pass2"])
           ELSE RaiseInConversion(r, q1, cleanup_file(disk \cup written, gif_path),
                                  "ConversionError")
    /\ UNCHANGED downloads

\* ffmpeg_processor.py:51-58,74-80: pass 1 (palettegen) ends
PaletteGen(r, outcome) ==
    /\ Step(r, "pass1")
    /\ outcome \in {"no_ffmpeg", "failed", "failed_partial", "ok"}
    /\ outcome = "ok" => req[r].downloaded_path \in disk
    /\ \E stderr_len \in {0, DIAG_PREFIX, DIAG_PREFIX + 1} :
       LET q == req[r]
           palette_path == PalettePath(q.downloaded_path)
           gif_path == GifPath(q.downloaded_path)
           written == IF outcome \in {"ok", "failed_partial"} THEN {palette_path} ELSE {}
           q1 == [q EXCEPT !.created = @ \cup written,
                           !.ffmpeg = run_ffmpeg_command(outcome, stderr_len),
                           !.calls = IF outcome = "no_ffmpeg" THEN @
                                     ELSE Append(@, "palettegen")]
       IN  IF outcome = "ok"
           THEN /\ disk' = disk \cup written
                /\ Update(r, [q1 EXCEPT !.pc = "pass2"])
           ELSE RaiseInConversion(r, q1,
                    cleanup_file(cleanup_file(disk \cup written, gif_path), palette_path),
                    "ConversionError")
    /\ UNCHANGED downloads

\* ffmpeg_processor.py:60-80 and youtube_service.py:82-86: pass 2
\* (paletteuse) ends
PaletteUse(r, outcome) ==
    /\ Step(r, "pass2")
    /\ outcome \in {"failed", "failed_partial", "no_output", "ok"}
    /\ outcome \in {"no_output", "ok"} =>
           /\ req[r].downloaded_path \in disk
           /\ PalettePath(req[r].downloaded_path) \in disk
    \* ffmpeg refuses an output file that is its input file
    /\ GifPath(req[r].downloaded_path) = req[r].downloaded_path => outcome = "failed"
    /\ \E stderr_len \in {0, DIAG_PREFIX, DIAG_PREFIX + 1} :
       LET q == req[r]
           palette_path == PalettePath(q.downloaded_path)
           gif_path == GifPath(q.downloaded_path)
           written == IF outcome \in {"ok", "failed_partial"} THEN {gif_path} ELSE {}
           files == disk \cup written
           q1 == [q EXCEPT !.created = @ \cup written, !.calls = Append(@, "paletteuse"),
                           !.ffmpeg = run_ffmpeg_command(outcome, stderr_len)]
       IN  IF outcome \in {"no_output", "ok"} /\ gif_path \in files
           THEN /\ disk' = cleanup_file(cleanup_file(files, palette_path), q.downloaded_path)
                /\ Update(r, [q1 EXCEPT !.pc = "processed", !.processed_path = gif_path,
                                        !.downloaded_path = NoPath])
           ELSE RaiseInConversion(r, q1,
                    cleanup_file(cleanup_file(files, gif_path), palette_path),
                    "ConversionError")
    /\ UNCHANGED downloads

\* process_and_download without the check of lines 95-98: it returns the
\* path it has
ProcessReturns_no_check(r, file_size) ==
    /\ Step(r, "processed")
    /\ file_size \in FileSizes
    /\ LET q == req[r]
       IN  /\ Update(r, [q EXCEPT !.returned = TRUE,
                                  !.final_media_path = q.processed_path,
                                  !.file_size = file_size,
                                  !.pc = IF file_size > MAX_UPLOAD_SIZE_BYTES
                                         THEN "oversized" ELSE "upload_started"])
           /\ UNCHANGED disk
    /\ UNCHANGED downloads

\* the handler without the size check: every artifact goes to the upload
ProcessReturns_no_limit(r, file_size) ==
    /\ Step(r, "processed")
    /\ file_size \in FileSizes
    /\ LET q == req[r]
       IN  IF q.processed_path = NoPath \/ q.processed_path \notin disk
           THEN Raise(r, q, disk, "ServiceError")
           ELSE /\ Update(r, [q EXCEPT !.returned = TRUE,
                                       !.final_media_path = q.processed_path,
                                       !.file_size = file_size,
                                       !.pc = "upload_started"])
                /\ UNCHANGED disk
    /\ UNCHANGED downloads

\* youtube_service.py:95-103 and download_callbacks.py:70-73,138-152
ProcessReturns(r, file_size) ==
    /\ Step(r, "processed")
    /\ file_size \in FileSizes
    /\ LET q == req[r]
       IN  IF q.processed_path = NoPath \/ q.processed_path \notin disk
           THEN Raise(r, q, disk, "ServiceError")
           ELSE /\ Update(r, [q EXCEPT !.returned = TRUE,
                                       !.final_media_path = q.processed_path,
                                       !.file_size = file_size,
                                       !.pc = IF file_size > MAX_UPLOAD_SIZE_BYTES
                                              THEN "oversized" ELSE "upload_started"])
                /\ UNCHANGED disk
    /\ UNCHANGED downloads

\* the oversize branch without its return: after 'failed' is persisted the
\* upload goes on
PersistOversized_no_return(r, ok) ==
    /\ Step(r, "oversized")
    /\ LET q == req[r]
       IN  IF ~ok
           THEN /\ Update(r, [q EXCEPT !.pc = "unexpected_error", !.error = "Exception",
                                       !.refused = TRUE])
                /\ UNCHANGED downloads
           ELSE /\ downloads' = update_download_status(downloads, q.download_record_id,
                                                       "failed", q.file_size)
                /\ Update(r, [q EXCEPT !.pc = "upload_started", !.status_text = "too_large"])
    /\ UNCHANGED disk

\* download_callbacks.py:146-152
PersistOversized(r, ok) ==
    /\ Step(r, "oversized")
    /\ LET q == req[r]
       IN  IF ~ok
           THEN /\ Update(r, [q EXCEPT !.pc = "unexpected_error", !.error = "Exception",
                                       !.refused = TRUE])
                /\ UNCHANGED downloads
           ELSE /\ downloads' = update_download_status(downloads, q.download_record_id,
                                                       "failed", q.file_size)
                /\ Update(r, [q EXCEPT !.pc = "delete_status", !.status_text = "too_large"])
    /\ UNCHANGED disk

\* _upload_media_file without the write of line 154: the upload begins and
\* 'upload_started' is not persisted
PersistUploadStarted_no_persist(r, ok) ==
    /\ Step(r, "upload_started")
    /\ LET q == req[r]
       IN  IF ~ok
           THEN /\ Update(r, [q EXCEPT !.pc = "unexpected_error", !.error = "Exception",
                                       !.refused = TRUE])
                /\ UNCHANGED downloads
           ELSE /\ UNCHANGED downloads
                /\ IF q.final_media_path \in disk
                   THEN \E finalized \in BOOLEAN :
                            Update(r, [q EXCEPT !.pc = "uploading", !.status_text = "uploading",
                                                !.handle = IF finalized THEN "closed"
                                                           ELSE "open"])
                   ELSE Update(r, [q EXCEPT !.pc = "service_error", !.status_text = "uploading",
                                            !.error = "FileNotFoundError"])
    /\ UNCHANGED disk

\* download_callbacks.py:154-160,169-182.  _get_upload_method_and_args opens
\* the artifact, hands the file object to InputFile and returns; the file
\* object is a local of that function and is closed nowhere, so whether it
\* is closed once the function has returned is up to the interpreter's
\* finalization of unreachable objects (finalized)
PersistUploadStarted(r, ok) ==
    /\ Step(r, "upload_started")
    /\ LET q == req[r]
       IN  IF ~ok
           THEN /\ Update(r, [q EXCEPT !.pc = "unexpected_error", !.error = "Exception",
                                       !.refused = TRUE])
                /\ UNCHANGED downloads
           ELSE /\ downloads' = update_download_status(downloads, q.download_record_id,
                                                       "upload_started", 0)
                /\ IF q.final_media_path \in disk
                   THEN \E finalized \in BOOLEAN :
                            Update(r, [q EXCEPT !.pc = "uploading", !.status_text = "uploading",
                                                !.handle = IF finalized THEN "closed"
                                                           ELSE "open"])
                   ELSE Update(r, [q EXCEPT !.pc = "service_error", !.status_text = "uploading",
                                            !.error = "FileNotFoundError"])
    /\ UNCHANGED disk

\* download_callbacks.py:162-163
Upload(r, sent) ==
    /\ Step(r, "uploading")
    /\ LET q == [req[r] EXCEPT !.calls = Append(@, "upload")]
       IN  Update(r, IF sent THEN [q EXCEPT !.pc = "completed"]
                     ELSE [q EXCEPT !.pc = "telegram_error", !.error = "TelegramError"])
    /\ UNCHANGED <<downloads, disk>>

\* download_callbacks.py:164-165
PersistCompleted(r, ok) ==
    /\ Step(r, "completed")
    /\ LET q == req[r]
       IN  IF ~ok
           THEN /\ Update(r, [q EXCEPT !.pc = "unexpected_error", !.error = "Exception",
                                       !.refused = TRUE])
                /\ UNCHANGED downloads
           ELSE /\ downloads' = update_download_status(downloads, q.download_record_id,
                                                       "completed", q.file_size)
                /\ Update(r, [q EXCEPT !.pc = "delete_status"])
    /\ UNCHANGED disk

\* download_callbacks.py:184-191
DeleteStatusMessage(r, deleted) ==
    /\ Step(r, "delete_status")
    /\ Update(r, [req[r] EXCEPT !.pc = "finally",
                                !.status_text = IF deleted THEN "deleted" ELSE @])
    /\ UNCHANGED <<downloads, disk>>

\* an error handler that retries: after a failure of process_and_download
\* the request goes back to the start of the download
HandleError_retry(r, ok, label) ==
    /\ Step(r, label)
    /\ LET q == req[r]
       IN  IF q.download_record_id # 0 /\ ~ok
           THEN /\ Update(r, [q EXCEPT !.pc = "finally", !.refused = TRUE])
                /\ UNCHANGED downloads
           ELSE /\ downloads' = IF q.download_record_id # 0
                                THEN update_download_status(downloads, q.download_record_id,
                                                            "failed", 0)
                                ELSE downloads
                /\ Update(r, [q EXCEPT !.pc = IF label = "service_error"
                                              THEN "download_started" ELSE "finally",
                                       !.status_text = "failed"])
    /\ UNCHANGED disk

\* error handlers that schedule the error text and persist nothing
HandleError_no_persist(r, ok, label) ==
    /\ Step(r, label)
    /\ Update(r, [req[r] EXCEPT !.pc = "finally", !.status_text = "failed"])
    /\ UNCHANGED <<downloads, disk>>

\* the except clauses of handle_download_callback persist 'failed' and
\* schedule the error text; a failing write leaves the handler through finally
HandleError(r, ok, label) ==
    /\ Step(r, label)
    /\ LET q == req[r]
       IN  IF q.download_record_id # 0 /\ ~ok
           THEN /\ Update(r, [q EXCEPT !.pc = "finally", !.refused = TRUE])
                /\ UNCHANGED downloads
           ELSE /\ downloads' = IF q.download_record_id # 0
                                THEN update_download_status(downloads, q.download_record_id,
                                                            "failed", 0)
                                ELSE downloads
                /\ Update(r, [q EXCEPT !.pc = "finally", !.status_text = "failed"])
    /\ UNCHANGED disk

\* download_callbacks.py:88-89,193-201
HandleServiceError(r, ok) == HandleError(r, ok, "service_error")

\* download_callbacks.py:90-91,203-212
HandleTelegramError(r, ok) == HandleError(r, ok, "telegram_error")

\* download_callbacks.py:92-93,214-220
HandleUnexpectedError(r, ok) == HandleError(r, ok, "unexpected_error")

\* download_callbacks.py:94-95,222-232.  media_file_handle of
\* handle_download_callback is None from line 38 on, so the close of lines
\* 224-229 is never reached
CleanupResources(r) ==
    /\ Step(r, "finally")
    /\ disk' = IF req[r].final_media_path # NoPath
               THEN cleanup_file(disk, req[r].final_media_path) ELSE disk
    /\ Update(r, [IdleReq EXCEPT !.pc = "done", !.data = req[r].data,
                               !.download_record_id = req[r].download_record_id,
                               !.refused = req[r].refused,
                               !.status_text = req[r].status_text])
    /\ UNCHANGED downloads

\* ------------------------------------------------------------------------
\* Progress bridge: StatusUpdater (status_updater.py:56-119).  Time is
\* counted in ticks of half a second.
\* ------------------------------------------------------------------------
\* status_updater.py:65  throttle_interval_seconds = 1.5
throttle_interval_ticks == 3

\* status_updater.py:66
percentage_throttle == 5

\* time.time() when the updater is built: long after the epoch
StartTime == 4

MaxTime == 84

\* the size the extractor announces; 0 stands for an unknown total
TotalBytes == 20

Abs(x) == IF x < 0 THEN -x ELSE x

Min(a, b) == IF a < b THEN a ELSE b

Max(a, b) == IF a > b THEN a ELSE b

\* status_updater.py:85-87  int((downloaded_bytes / total_bytes_est) * 100), clamped
Percentage(downloaded_bytes, total_bytes_est) ==
    Max(0, Min(100, (downloaded_bytes * 100) \div total_bytes_est))

\* the throttle that passes an event 1.5 s after the last update
should_update_at_least(percentage, current_time) ==
    \/ last_percentage = -1
    \/ /\ current_time - last_update_time >= throttle_interval_ticks
       /\ Abs(percentage - last_percentage) >= percentage_throttle
    \/ percentage = 100 /\ last_percentage # 100

\* the throttle with 'or' between the time and the percentage conditions
should_update_or(percentage, current_time) ==
    \/ last_percentage = -1
    \/ current_time - last_update_time > throttle_interval_ticks
    \/ Abs(percentage - last_percentage) >= percentage_throttle
    \/ percentage = 100 /\ last_percentage # 100

\* the throttle that always passes 100%
should_update_always_100(percentage, current_time) ==
    \/ last_percentage = -1
    \/ /\ current_time - last_update_time > throttle_interval_ticks
       /\ Abs(percentage - last_percentage) >= percentage_throttle
    \/ percentage = 100

\* status_updater.py:92-99
should_update(percentage, current_time) ==
    \/ last_percentage = -1
    \/ /\ current_time - last_update_time > throttle_interval_ticks
       /\ Abs(percentage - last_percentage) >= percentage_throttle
    \/ percentage = 100 /\ last_percentage # 100

\* status_updater.py:68-73: one more edit is scheduled on the event loop
ScheduleEdit(percentage) ==
    edits' = [count |-> edits.count + 1,
              last |-> percentage,
              hundreds |-> edits.hundreds + (IF percentage = 100 THEN 1 ELSE 0),
              decreased |-> edits.decreased \/ percentage < edits.last]

Event(status, downloaded_bytes, total_bytes) ==
    [status |-> status, downloaded_bytes |-> downloaded_bytes, total_bytes |-> total_bytes]

\* update_progress without the test of line 112: every finished event
\* schedules a 100% update
update_progress_final_always(data, current_time, loop_ok) ==
    LET percentage == Percentage(data.downloaded_bytes, data.total_bytes)
        scheduling == \/ /\ data.status = "downloading"
                         /\ data.total_bytes # 0
                         /\ should_update(percentage, current_time)
                      \/ data.status = "finished"
    IN  /\ now' = current_time
        /\ stream' = [started |-> TRUE,
                      downloaded_bytes |-> IF data.status = "downloading"
                                           THEN data.downloaded_bytes
                                           ELSE stream.downloaded_bytes,
                      finished |-> stream.finished \/ data.status = "finished",
                      event |-> data,
                      loop_ok |-> loop_ok,
                      raised |-> scheduling /\ ~loop_ok /\ data.status = "finished"]
        /\ IF scheduling /\ ~loop_ok
           THEN UNCHANGED <<last_update_time, last_percentage, edits>>
           ELSE IF data.status = "downloading"
           THEN IF data.total_bytes = 0
                THEN UNCHANGED <<last_update_time, last_percentage, edits>>
                ELSE IF should_update(percentage, current_time)
                     THEN /\ ScheduleEdit(percentage)
                          /\ last_update_time' = current_time
                          /\ last_percentage' = percentage
                     ELSE UNCHANGED <<last_update_time, last_percentage, edits>>
           ELSE IF data.status = "finished"
           THEN /\ ScheduleEdit(100)
                /\ last_percentage' = 100
                /\ UNCHANGED last_update_time
           ELSE UNCHANGED <<last_update_time, last_percentage, edits>>

\* status_updater.py:76-115: update_progress(data) at time current_time.
\* loop_ok tells whether run_coroutine_threadsafe (status_updater.py:73)
\* accepts the coroutine; it raises when the event loop is closed.  An
\* exception raised in the 'downloading' branch is caught and logged
\* (status_updater.py:108-109), one raised in the 'finished' branch leaves
\* update_progress (stream.raised)
update_progress(data, current_time, loop_ok) ==
    LET percentage == Percentage(data.downloaded_bytes, data.total_bytes)
        scheduling == \/ /\ data.status = "downloading"
                         /\ data.total_bytes # 0
                         /\ should_update(percentage, current_time)
                      \/ data.status = "finished" /\ last_percentage # 100
    IN  /\ now' = current_time
        /\ stream' = [started |-> TRUE,
                      downloaded_bytes |-> IF data.status = "downloading"
                                           THEN data.downloaded_bytes
                                           ELSE stream.downloaded_bytes,
                      finished |-> stream.finished \/ data.status = "finished",
                      event |-> data,
                      loop_ok |-> loop_ok,
                      raised |-> scheduling /\ ~loop_ok /\ data.status = "finished"]
        /\ IF scheduling /\ ~loop_ok
           THEN UNCHANGED <<last_update_time, last_percentage, edits>>
           ELSE IF data.status = "downloading"
           THEN IF data.total_bytes = 0
                THEN UNCHANGED <<last_update_time, last_percentage, edits>>
                ELSE IF should_update(percentage, current_time)
                     THEN /\ ScheduleEdit(percentage)
                          /\ last_update_time' = current_time
                          /\ last_percentage' = percentage
                     ELSE UNCHANGED <<last_update_time, last_percentage, edits>>
           ELSE IF data.status = "finished" /\ last_percentage # 100
           THEN /\ ScheduleEdit(100)
                /\ last_percentage' = 100
                /\ UNCHANGED last_update_time
           ELSE UNCHANGED <<last_update_time, last_percentage, edits>>

\* the time of the next event: the same instant, or 1.5 s or 2 s later
NextTimes == {t \in {now, now + throttle_interval_ticks, now + throttle_interval_ticks + 1} :
                 t <= MaxTime}

\* the same instant, or 2 s later
StreamTimes == {t \in {now, now + throttle_interval_ticks + 1} : t <= MaxTime}

\* a download of one file whose size is known: the bytes stay, grow by a
\* twentieth or reach the end, until the extractor reports the end
StreamEvents ==
    IF stream.finished THEN {}
    ELSE {Event("downloading", b, TotalBytes) :
             b \in {stream.downloaded_bytes, Min(TotalBytes, stream.downloaded_bytes + 1),
                    TotalBytes}}
         \cup (IF stream.downloaded_bytes = TotalBytes /\ stream.started
               THEN {Event("finished", TotalBytes, TotalBytes)} ELSE {})

\* any event the extractor's hook can deliver
AnyEvents ==
    {Event("downloading", b, t) : b \in {0, 1, 10, 19, TotalBytes},
                                  t \in {0, TotalBytes, 2 * TotalBytes}}
    \cup {Event("finished", TotalBytes, TotalBytes), Event("error", 0, 0)}

\* how long the unrestricted event sequences run
MaxProgressTime == 16

DeliverStream ==
    /\ \E data \in StreamEvents : \E t \in StreamTimes : update_progress(data, t, TRUE)
    /\ UNCHANGED <<codecVars, handlerVars, formatVars, message>>

DeliverAny ==
    /\ \E data \in AnyEvents : \E t \in NextTimes : \E loop_ok \in BOOLEAN :
           t <= MaxProgressTime /\ update_progress(data, t, loop_ok)
    /\ UNCHANGED <<codecVars, handlerVars, formatVars, message>>

\* ------------------------------------------------------------------------
\* Format selection (downloader.py:63-85).  A format-selection expression
\* 'a+b/c' is the tuple of its '/'-separated alternatives, an alternative
\* the tuple of its '+'-joined terms, a term a name with an optional filter.
\* The extractor library reads it as its documentation says: alternatives
\* are tried from the left and the first that yields formats wins; a merge
\* needs every one of its terms; 'best' is the best format with video and
\* audio, 'bestvideo' the best video-only and 'bestaudio' the best
\* audio-only format; a filter drops the formats that fail it or lack the
\* field.
\* ------------------------------------------------------------------------
Stream(height, video, audio) == [height |-> height, video |-> video, audio |-> audio]

\* the streams a source can offer: combined, video-only, audio-only
\* (an audio-only stream has no height)
SourceFormats ==
    {Stream(360, TRUE, TRUE), Stream(480, TRUE, TRUE), Stream(1080, TRUE, TRUE),
     Stream(480, TRUE, FALSE), Stream(720, TRUE, FALSE), Stream(1080, TRUE, FALSE),
     Stream(0, FALSE, TRUE)}

Term(name, filter, height) == [name |-> name, filter |-> filter, height |-> height]

\* quality_selector[1:] as a number, for the selectors 'h<digits>'
SelectorHeight(quality_selector) ==
    CHOOSE h \in Heights : HeightSelector(h) = quality_selector

\* expressions without fallbacks: the most specific alternative alone
FormatString_first_only(quality_selector) ==
    IF quality_selector = "audio"
    THEN << <<Term("bestaudio", "", 0)>> >>
    ELSE IF quality_selector = "gif"
    THEN << <<Term("best", "", 0)>> >>
    ELSE IF quality_selector = "best"
    THEN << <<Term("bestvideo", "", 0), Term("bestaudio", "", 0)>> >>
    ELSE IF quality_selector \in {HeightSelector(h) : h \in Heights}
    THEN LET height == SelectorHeight(quality_selector)
         IN  << <<Term("bestvideo", "height<=", height), Term("bestaudio", "", 0)>> >>
    ELSE <<>>

\* downloader.py:63-82: format_string; <<>> stands for the ValueError
FormatString(quality_selector) ==
    IF quality_selector = "audio"
    THEN << <<Term("bestaudio", "", 0)>>,
            <<Term("best", "acodec!=none", 0)>>,
            <<Term("best", "", 0)>> >>
    ELSE IF quality_selector = "gif"
    THEN << <<Term("best", "", 0)>> >>
    ELSE IF quality_selector = "best"
    THEN << <<Term("bestvideo", "", 0), Term("bestaudio", "", 0)>>,
            <<Term("best", "", 0)>> >>
    ELSE IF quality_selector \in {HeightSelector(h) : h \in Heights}
    THEN LET height == SelectorHeight(quality_selector)
         IN  << <<Term("bestvideo", "height<=", height), Term("bestaudio", "", 0)>>,
                <<Term("best", "height<=", height)>>,
                <<Term("bestvideo", "height<=", height)>>,
                <<Term("best", "", 0)>> >>
    ELSE <<>>

\* the formats a filter lets through
Filtered(formats, term) ==
    IF term.filter = "height<="
    THEN {f \in formats : f.video /\ f.height <= term.height}
    ELSE IF term.filter = "acodec!=none"
    THEN {f \in formats : f.audio}
    ELSE formats

\* every format of the source is video-only, or every one is audio-only
IncompleteFormats(formats) ==
    \/ \A f \in formats : f.video /\ ~f.audio
    \/ \A f \in formats : ~f.video /\ f.audio

\* the formats one term chooses among: for 'best' on a source of video-only
\* or of audio-only formats, those formats themselves
Matches(formats, term) ==
    LET filtered == Filtered(formats, term)
        matches == IF term.name = "bestvideo" THEN {f \in filtered : f.video /\ ~f.audio}
                   ELSE IF term.name = "bestaudio" THEN {f \in filtered : ~f.video /\ f.audio}
                   ELSE {f \in filtered : f.video /\ f.audio}
    IN  IF matches = {} /\ term.name = "best" /\ IncompleteFormats(formats)
        THEN filtered ELSE matches

\* the best of a set of formats: the extractor sorts by resolution
BestOf(matches) == CHOOSE f \in matches : \A g \in matches : g.height <= f.height

\* the formats an alternative yields, {} when one of its terms yields none
Alternative(formats, terms) ==
    IF \E i \in 1..Len(terms) : Matches(formats, terms[i]) = {}
    THEN {}
    ELSE {BestOf(Matches(formats, terms[i])) : i \in 1..Len(terms)}

\* the formats the expression selects from the source, {} when no
\* alternative yields any ('Requested format is not available')
SelectFormats(formats, format_string) ==
    LET yielding == {i \in 1..Len(format_string) :
                        Alternative(formats, format_string[i]) # {}}
    IN  IF yielding = {} THEN {}
        ELSE Alternative(formats,
                 format_string[CHOOSE i \in yielding : \A j \in yielding : i <= j])

\* the selectors a callback can carry: those of the keyboard and one that
\* download_media does not know
Selectors == {"best", "audio", "gif", "hd"} \cup {HeightSelector(h) : h \in Heights}

NoSelection ==
    [quality_selector |-> "", formats |-> {}, format_string |-> <<>>,
     selected |-> {}, result |-> ""]

\* downloader.py:63-140: download_media builds the expression and the
\* extractor selects with it
DownloadMedia ==
    /\ selection.result = ""
    /\ selection.quality_selector # ""
    /\ LET format_string == FormatString(selection.quality_selector)
           selected == SelectFormats(selection.formats, format_string)
       IN  selection' = [selection EXCEPT
               !.format_string = format_string,
               !.selected = selected,
               !.result = IF format_string = <<>> THEN "ValueError"
                          ELSE IF selected = {} THEN "DownloaderError"
                          ELSE "downloaded"]
    /\ UNCHANGED <<codecVars, handlerVars, progressVars, info>>

\* ------------------------------------------------------------------------
\* The edits of one status message (status_updater.py:17-53,68-73,117-119).
\* _schedule_edit hands each edit to the event loop as a task of its own with
\* run_coroutine_threadsafe and keeps no reference to it: the loop starts the
\* tasks in the order they were handed over, each sends its request to the
\* chat transport, and nothing makes a task wait for the one before it.
\* scheduled holds the texts in scheduling order, ready the tasks not yet
\* started, in_flight the requests sent and not yet answered, shown the
\* edit the message shows (0: the text it had before).
\* ------------------------------------------------------------------------
MaxEdits == 3

NoEdits == [scheduled |-> <<>>, ready |-> <<>>, in_flight |-> {}, shown |-> 0]

\* status_updater.py:68-73: update_progress (worker thread) or update_status
\* (scheduler thread) schedules the edit with text
_schedule_edit(text) ==
    /\ Len(message.scheduled) < MaxEdits
    /\ message' = [message EXCEPT !.scheduled = Append(@, text),
                                  !.ready = Append(@, Len(message.scheduled) + 1)]

\* the loop starts the oldest task: _edit_message_safe runs up to the await
\* of bot.edit_message_text (status_updater.py:23-28)
StartEdit ==
    /\ message.ready # <<>>
    /\ message' = [message EXCEPT !.ready = Tail(@),
                                  !.in_flight = @ \cup {Head(message.ready)}]

\* the chat transport answers one of the requests in flight: it has applied
\* the edit, or it has refused it and _edit_message_safe logs the error
\* (status_updater.py:29-53)
EditAnswered(e, applied) ==
    /\ e \in message.in_flight
    /\ message' = [message EXCEPT !.in_flight = @ \ {e},
                                  !.shown = IF applied THEN e ELSE @]

EditMessage ==
    /\ \/ \E text \in {"progress", "status"} : _schedule_edit(text)
       \/ StartEdit
       \/ \E e \in message.in_flight, applied \in BOOLEAN : EditAnswered(e, applied)
    /\ UNCHANGED <<codecVars, handlerVars, formatVars,
                   last_update_time, last_percentage, now, stream, edits>>

\* ------------------------------------------------------------------------
\* get_video_info (downloader.py:19-39).  A message is the tuple of its
\* words; the extractor's extract_info(url, download=False) returns an
\* info_dict with or without a 'formats' entry, returns None, or raises.
\* ------------------------------------------------------------------------
NoInfo ==
    [extractor |-> [kind |-> "", formats |-> {}, class |-> "", args |-> <<>>],
     raised |-> "", message |-> <<>>, returned |-> FALSE]

\* what extract_info does
ExtractInfoOutcomes ==
    {[NoInfo.extractor EXCEPT !.kind = "info_dict", !.formats = F] : F \in SUBSET SourceFormats}
    \cup {[NoInfo.extractor EXCEPT !.kind = k] : k \in {"no_formats_key", "None"}}
    \cup {[NoInfo.extractor EXCEPT !.kind = "raises", !.class = "DownloadError", !.args = m] :
              m \in {<<"ERROR:", "Video", "unavailable">>,
                     <<"ERROR:", "Private", "video.", "Sign", "in">>,
                     <<"ERROR:", "private", "video", "unavailable">>,
                     <<"ERROR:", "Sign", "in", "to", "confirm", "your", "age">>,
                     <<"ERROR:", "Unsupported", "URL">>}}
    \cup {[NoInfo.extractor EXCEPT !.kind = "raises", !.class = c] :
              c \in {"ExtractorError", "OSError"}}

\* downloader.py:19-39: the exception get_video_info raises and its message
\* ("" and <<>> when it returns the info_dict)
get_video_info(extractor) ==
    LET lower(w) == CASE w = "Video" -> "video"
                      [] w = "Private" -> "private"
                      [] w = "video." -> "video"
                      [] OTHER -> w
        err_msg == [i \in 1..Len(extractor.args) |-> lower(extractor.args[i])]
        contains(a, b) == \E i \in 1..(Len(err_msg) - 1) : err_msg[i] = a /\ err_msg[i + 1] = b
        unexpected(class) ==
            [raised |-> "DownloaderError",
             message |-> <<"Unexpected error fetching video info:", class>>]
    IN  CASE extractor.kind = "raises" /\ extractor.class = "DownloadError" ->
                 [raised |-> "DownloaderError",
                  message |-> IF contains("video", "unavailable")
                              THEN <<"This video is unavailable.">>
                              ELSE IF contains("private", "video")
                              THEN <<"This is a private video.">>
                              ELSE <<"Could not get video info:">> \o extractor.args]
          [] extractor.kind = "raises" -> unexpected(extractor.class)
          [] extractor.kind = "None" -> unexpected("TypeError")
          [] extractor.kind = "no_formats_key" \/ extractor.formats = {} ->
                 unexpected("DownloaderError")
          [] OTHER -> [raised |-> "", message |-> <<>>]

\* one call of get_video_info
GetVideoInfo ==
    /\ info.extractor.kind # ""
    /\ ~info.returned
    /\ LET result == get_video_info(info.extractor)
       IN  info' = [info EXCEPT !.raised = result.raised, !.message = result.message,
                                !.returned = TRUE]
    /\ UNCHANGED <<codecVars, handlerVars, progressVars, selection>>

\* ------------------------------------------------------------------------
\* Specifications
\* ------------------------------------------------------------------------
InitCodec ==
    /\ _url_cache = EmptyCache
    /\ issued = {}
    /\ decoded = NoDecode

InitHandler ==
    /\ req = [r \in Presses |-> IdleReq]
    /\ downloads = <<>>
    /\ disk = {}

InitProgress ==
    /\ last_update_time = 0
    /\ last_percentage = -1
    /\ now = StartTime
    /\ stream = [started |-> FALSE, downloaded_bytes |-> 0, finished |-> FALSE,
                 event |-> Event("", 0, 0), loop_ok |-> TRUE, raised |-> FALSE]
    /\ edits = [count |-> 0, last |-> -1, hundreds |-> 0, decreased |-> FALSE]
    /\ message = NoEdits

Init ==
    /\ InitCodec /\ InitHandler /\ InitProgress /\ concurrent = FALSE
    /\ selection = NoSelection /\ info = NoInfo

InitConcurrent ==
    /\ InitCodec /\ InitHandler /\ InitProgress /\ concurrent = TRUE
    /\ selection = NoSelection /\ info = NoInfo

\* a download_media call about to be made: any selector, any source
InitFormat ==
    /\ InitCodec /\ InitHandler /\ InitProgress /\ concurrent = FALSE /\ info = NoInfo
    /\ \E quality_selector \in Selectors, formats \in SUBSET SourceFormats :
           selection = [NoSelection EXCEPT !.quality_selector = quality_selector,
                                           !.formats = formats]

\* a get_video_info call about to be made: anything the extractor can do
InitInfo ==
    /\ InitCodec /\ InitHandler /\ InitProgress /\ concurrent = FALSE
    /\ selection = NoSelection
    /\ \E extractor \in ExtractInfoOutcomes : info = [NoInfo EXCEPT !.extractor = extractor]

\* the URLs and the callback data the handler is driven with
PressData ==
    IF concurrent
    THEN {CallbackData("gif", create_callback_payload(U_yt_short)),
          CallbackData("best", create_callback_payload(U_yt_watch))}
    ELSE {CallbackData("gif", create_callback_payload(U_yt_short)),
          CallbackData("best", create_callback_payload(U_yt_short)),
          CallbackData("audio", create_callback_payload(U_vimeo_a)),
          CallbackData("hd", create_callback_payload(U_yt_short)),
          CallbackData("best", <<"hash", Md5Hex12(U_tiktok)>>),
          CallbackData("gif", <<>>)}

NextCodec ==
    /\ \/ \E u \in Urls, k \in KeyboardInputs : ShowKeyboard(u, k[1], k[2])
       \/ \E b \in issued : Decode(b.data)
       \/ \E d \in ForeignData : Decode(d)
       \/ Restart
    /\ UNCHANGED <<handlerVars, progressVars, formatVars>>

NextHandler ==
    /\ \/ \E r \in Presses, d \in PressData, store \in {"ok", "log_fails", "create_fails", "type_error"} :
              Press(r, d, store)
       \/ \E r \in Presses, ok \in BOOLEAN :
              \/ PersistDownloadStarted(r, ok)
              \/ SetTitle(r, ok)
              \/ PersistConversionStarted(r, ok)
              \/ PersistConverting(r, ok)
              \/ PersistOversized(r, ok)
              \/ PersistUploadStarted(r, ok)
              \/ Upload(r, ok)
              \/ PersistCompleted(r, ok)
              \/ DeleteStatusMessage(r, ok)
              \/ HandleServiceError(r, ok)
              \/ HandleTelegramError(r, ok)
              \/ HandleUnexpectedError(r, ok)
       \/ \E r \in Presses :
              \/ \E outcome \in ExtractorOutcomes(req[r].selector) : ExtractorRuns(r, outcome)
              \/ DownloadReturns(r)
              \/ \E outcome \in {"no_ffmpeg", "failed", "failed_partial", "ok"} : PaletteGen(r, outcome)
              \/ \E outcome \in {"failed", "failed_partial", "no_output", "ok"} : PaletteUse(r, outcome)
              \/ \E file_size \in FileSizes : ProcessReturns(r, file_size)
              \/ CleanupResources(r)
    /\ UNCHANGED <<concurrent, progressVars, formatVars>>

\* handle_message shows the keyboard of a URL, between two presses
ShowHandlerKeyboard ==
    /\ \A r \in Presses : ~InFlight(r)
    /\ U_vimeo_a \notin ShownUrls
    /\ ShowKeyboard(U_vimeo_a, {}, 0)
    /\ UNCHANGED <<handlerVars, progressVars, formatVars>>

Next == (NextHandler /\ UNCHANGED codecVars) \/ ShowHandlerKeyboard

NextConcurrent == NextHandler /\ UNCHANGED codecVars

\* handlers run one at a time
Spec == Init /\ [][Next]_vars

\* handlers interleave at their suspension points
SpecConcurrent == InitConcurrent /\ [][NextConcurrent]_vars

SpecCodec == Init /\ [][NextCodec]_vars

SpecStream == Init /\ [][DeliverStream]_vars

SpecProgress == Init /\ [][DeliverAny]_vars

\* one call of download_media on a source
SpecFormat == InitFormat /\ [][DownloadMedia]_vars

\* handlers run one at a time and every call a handler awaits returns: the
\* handler that is in flight takes its next step
SpecLive == Spec /\ WF_vars(Next)

\* the edits of the status message of one request
SpecEdits == Init /\ [][EditMessage]_vars

\* one call of get_video_info on whatever the extractor does
SpecInfo == InitInfo /\ [][GetVideoInfo]_vars

\* ------------------------------------------------------------------------
\* Properties
\* ------------------------------------------------------------------------

\* the order of the persisted statuses; 'failed' stands outside it
StatusRank(status) ==
    CASE status = "requested" -> 0
      [] status = "download_started" -> 1
      [] status = "downloading" -> 2
      [] status = "conversion_started" -> 3
      [] status = "converting" -> 4
      [] status = "upload_started" -> 5
      [] status = "completed" -> 6
      [] OTHER -> -1

\* status b may be persisted right after status a: nothing follows a terminal
\* status, 'failed' follows any other, the rest follow the order
AllowedTransition(a, b) ==
    /\ a \notin Terminal
    /\ b # "failed" => StatusRank(a) <= StatusRank(b)

\* C1: the statuses persisted for a record start with 'requested', never
\* decrease in the order requested < download_started < downloading <
\* conversion_started < converting < upload_started < completed ('failed'
\* being reachable from any non-terminal status), and nothing non-terminal is
\* persisted after 'completed' or 'failed'
C1_StatusMonotone ==
    \A i \in 1..Len(downloads) :
        LET history == downloads[i].history
        IN  /\ history[1] = "requested"
            /\ \A j \in 1..(Len(history) - 1) : AllowedTransition(history[j], history[j + 1])

\* a converted GIF was uploaded, and the record of an oversized file failed
C1_Witness ==
    /\ \E i \in 1..Len(downloads) :
           downloads[i].history = <<"requested", "download_started", "conversion_started",
                                    "converting", "upload_started", "completed">>
    /\ \E i \in 1..Len(downloads) :
           downloads[i].history = <<"requested", "download_started", "failed">>
           /\ downloads[i].file_size > MAX_UPLOAD_SIZE_BYTES

\* C2: after process_and_download returned, the only file written for the
\* request that is on disk is the returned artifact; after it raised, no file
\* written for the request is on disk
C2_CleanupInvariant ==
    \A r \in Presses :
        /\ req[r].pc \in {"oversized", "upload_started"} =>
               req[r].created \cap disk = {req[r].final_media_path}
        /\ (req[r].pc = "service_error" /\ ~req[r].returned) =>
               req[r].created \cap disk = {}

C4_TokensFit ==
    \A b \in issued : ByteLen(b.data) <= CALLBACK_DATA_LIMIT

\* the URLs that get an ID payload: a platform with reversible IDs, an ID in
\* the URL, and a payload within the limit
HasIdPayload(url) ==
    /\ get_platform_name(url) \in {"YouTube", "Twitter/X"}
    /\ extract_platform_id(url) # NoId
    /\ Len(PlatformShort(get_platform_name(url))) + 1 + Len(extract_platform_id(url))
           <= PAYLOAD_LIMIT

\* platforms/youtube.py:33-35, platforms/twitter.py:33-35: the URL the
\* platform rebuilds from the ID of url
CanonicalUrl(url) ==
    IF get_platform_name(url) = "YouTube"
    THEN Url("www.youtube.com", "/watch?v=", extract_platform_id(url), "")
    ELSE Url("twitter.com", "/i/web/status/", extract_platform_id(url), "")

C6_HashRoundTrip ==
    \A b \in issued :
        (~HasIdPayload(b.url) /\ Md5Hex12(b.url) \in DOMAIN _url_cache) =>
            parse_download_callback(b.data, _url_cache)
                = [ok |-> TRUE, selector |-> b.selector, url |-> b.url]

\* callback data that cannot be decoded with the cache: no payload, a hash
\* the cache does not hold, or a platform the resolver does not know
Undecodable(data, cache) ==
    \/ Len(data) < 2
    \/ data[2] = "hash" /\ (Len(data) < 3 \/ data[3] \notin DOMAIN cache)
    \/ data[2] \notin {"hash", "youtube", "twitter_x", "twitter"}

\* a press of r is handled and its data cannot be decoded (the interaction
\* log accepted the press)
UndecodablePress(r) ==
    /\ req[r].pc = "idle"
    /\ req'[r].pc # "idle"
    /\ req'[r].error = ""
    /\ Undecodable(req'[r].data, _url_cache)

\* a press reported as invalid has no record and no file, and only the
\* cleanup of the handler is left
InvalidIsInert ==
    \A r \in Presses :
        req[r].status_text = "invalid" =>
            /\ req[r].pc \in {"finally", "done"}
            /\ req[r].download_record_id = 0
            /\ req[r].created = {}

\* C7: a press whose data cannot be decoded is reported as invalid; no record
\* is created, no status persisted and no download started
C7_DecodeFailure ==
    /\ []InvalidIsInert
    /\ [][\A r \in Presses :
              UndecodablePress(r) =>
                  /\ parse_download_callback(req'[r].data, _url_cache) = NoParse
                  /\ req'[r].pc = "finally"
                  /\ req'[r].status_text = "invalid"
                  /\ req'[r].download_record_id = 0
                  /\ downloads' = downloads
                  /\ disk' = disk]_vars

\* the button of an earlier process was pressed, and data without a payload
C7_Witness ==
    /\ \E r \in Presses :
           /\ req[r].data = CallbackData("best", <<"hash", Md5Hex12(U_tiktok)>>)
           /\ req[r].status_text = "invalid"
           /\ req[r].pc = "done"
    /\ \E r \in Presses :
           /\ req[r].data = CallbackData("gif", <<>>)
           /\ req[r].status_text = "invalid"
    /\ downloads = <<>>

\* C8: for any sequence of progress events the percentages of the scheduled
\* updates never decrease, and 100% is scheduled at most once
C8_ProgressMonotone ==
    /\ ~edits.decreased
    /\ edits.hundreds <= 1

\* ceil(100 / percentage_throttle) + 2
UpdateBound == (100 + percentage_throttle - 1) \div percentage_throttle + 2

\* C9: a monotone stream with a known total schedules at most
\* ceil(100/5) + 2 = 22 updates whatever its timing, and its first event
\* schedules one
C9_ThrottleBound ==
    /\ [](edits.count <= UpdateBound)
    /\ [][(~stream.started /\ stream'.started) => edits'.count = 1]_vars

\* the stream ended after one update per 5%, 2 s apart
C9_Witness ==
    /\ stream.finished
    /\ edits.count = 100 \div percentage_throttle + 1
    /\ edits.count <= UpdateBound

\* C10: a monotone stream schedules no 100% update before it reaches 100%
\* and exactly one from then on, whatever 100% events and finished event follow
C10_One100 ==
    /\ stream.downloaded_bytes < TotalBytes => edits.hundreds = 0
    /\ stream.downloaded_bytes = TotalBytes => edits.hundreds = 1 /\ edits.last = 100

\* the stream reached 100%, and more than 1.5 s later it ended
C10_Witness ==
    /\ stream.finished
    /\ edits.hundreds = 1
    /\ edits.count > 1
    /\ now - last_update_time > throttle_interval_ticks

\* the calls of a request that downloaded and converted
GifCalls == <<"download_media", "convert_to_gif", "palettegen", "paletteuse">>

\* C11: with the gif selector, once the download and both passes succeeded,
\* process_and_download has called download_media, then convert_to_gif with
\* the palette pass before the paletteuse pass, and returns a path with the
\* gif extension that is on disk, while the palette and the downloaded video
\* are not, whatever the extension of the downloaded file
C11_GifScenario ==
    \A r \in Presses :
        /\ (req[r].selector = "gif" /\ req[r].pc = "processed") =>
               /\ req[r].calls = GifCalls
               /\ req[r].processed_path \in disk
        /\ (req[r].selector = "gif" /\ req[r].pc \in {"oversized", "upload_started"}) =>
               /\ req[r].calls = GifCalls
               /\ req[r].final_media_path.ext = "gif"
               /\ req[r].final_media_path \in disk
               /\ \E f \in req[r].created : f.ext = "_palette.png"
               /\ \E f \in req[r].created : f.ext \notin {"_palette.png", "gif"}
               /\ \A f \in req[r].created : f # req[r].final_media_path => f \notin disk

\* a webm download was converted and returned as a GIF
C11_Witness ==
    \E r \in Presses :
        /\ req[r].selector = "gif"
        /\ req[r].pc = "upload_started"
        /\ req[r].final_media_path.ext = "gif"
        /\ \E f \in req[r].created : f.ext = "webm"

\* convert_to_gif was called for r and has finished
ConvertFinished(r) ==
    /\ \E i \in 1..Len(req[r].calls) : req[r].calls[i] = "convert_to_gif"
    /\ req[r].pc \notin {"pass1", "pass2"}

\* C12: after convert_to_gif finished the palette file does not exist,
\* whether it succeeded, the tool was unavailable, pass 1 or pass 2 failed,
\* or the output was missing after both passes
C12_PaletteRemoved ==
    \A r \in Presses :
        ConvertFinished(r) => Path(req[r].url, "_palette.png") \notin disk

\* a conversion has failed before, and one failed in pass 2 after its
\* palette was written
C12_Witness ==
    /\ \E i \in 1..Len(downloads) :
           downloads[i].history = <<"requested", "download_started", "conversion_started",
                                    "converting", "failed">>
    /\ \E r \in Presses :
           /\ ConvertFinished(r)
           /\ \E f \in req[r].created : f.ext = "_palette.png"
           /\ req[r].pc = "service_error"
           /\ req[r].calls[Len(req[r].calls)] = "paletteuse"

\* the exceptions process_and_download lets through unchanged
ServiceErrors == {"DownloaderError", "ConversionError", "ServiceError"}

\* C13: a failure of process_and_download surfaces as DownloaderError,
\* ConversionError or ServiceError: one of these is re-raised unchanged, any
\* other exception is replaced by a ServiceError, and process_and_download
\* does not return after a step failed
C13_ErrorSurface ==
    \A r \in Presses :
        /\ (req[r].pc = "service_error" /\ ~req[r].returned) =>
               /\ req[r].error \in ServiceErrors
               /\ req[r].cause \in ServiceErrors => req[r].error = req[r].cause
               /\ req[r].cause \notin ServiceErrors => req[r].error = "ServiceError"
        /\ req[r].returned => req[r].cause = ""

\* the number of times call occurs in the calls of a request
Invocations(calls, call) == Cardinality({i \in 1..Len(calls) : calls[i] = call})

\* C14: while one request is handled the download is invoked at most once
\* and the conversion at most once, and once a step of the request has
\* failed (download, conversion or upload) neither is invoked again
C14_NoRetries ==
    [][\A r \in Presses :
           /\ Invocations(req'[r].calls, "download_media") <= 1
           /\ Invocations(req'[r].calls, "convert_to_gif") <= 1
           /\ req[r].error # "" =>
                  /\ Invocations(req'[r].calls, "download_media")
                         <= Invocations(req[r].calls, "download_media")
                  /\ Invocations(req'[r].calls, "convert_to_gif")
                         <= Invocations(req[r].calls, "convert_to_gif")]_vars

\* an animated-image request whose upload failed has been handled: one
\* download, one conversion, one upload
C14_Witness ==
    \E r \in Presses :
        /\ req[r].pc = "finally"
        /\ req[r].error = "TelegramError"
        /\ req[r].calls = GifCalls \o <<"upload">>

\* the statuses persisted so far for the record of request r
History(r) == downloads[req[r].download_record_id].history

\* the handler has the artifact of request r and it is above the limit
Oversized(r) == req[r].returned /\ req[r].file_size > MAX_UPLOAD_SIZE_BYTES

\* C15: an artifact above the upload limit is never uploaded: no upload call
\* is made, 'upload_started' and 'completed' are never persisted, no second
\* download and no re-encoding start, and once the state store has taken the
\* write of the oversize branch the record is 'failed' with the file size;
\* an artifact exactly at the limit goes to the upload
C15_OversizeTerminal ==
    \A r \in Presses :
        /\ Oversized(r) =>
               /\ Invocations(req[r].calls, "upload") = 0
               /\ \A i \in 1..Len(History(r)) :
                      History(r)[i] \notin {"upload_started", "completed"}
               /\ Invocations(req[r].calls, "download_media") = 1
               /\ Invocations(req[r].calls, "convert_to_gif")
                      = (IF req[r].selector = "gif" THEN 1 ELSE 0)
               /\ req[r].pc \in {"oversized", "delete_status", "finally", "unexpected_error"}
               /\ (req[r].pc \in {"delete_status", "finally"} /\ req[r].error = "") =>
                      /\ History(r)[Len(History(r))] = "failed"
                      /\ downloads[req[r].download_record_id].file_size = req[r].file_size
        /\ (req[r].returned /\ req[r].file_size = MAX_UPLOAD_SIZE_BYTES) =>
               /\ req[r].pc # "oversized"
               /\ req[r].status_text # "too_large"
               /\ req[r].pc \in {"delete_status", "finally"} /\ req[r].error = "" =>
                      Invocations(req[r].calls, "upload") = 1

\* one request ended 'failed' with a size above the limit, and the artifact
\* of another, exactly at the limit, has been sent
C15_Witness ==
    /\ \E i \in 1..Len(downloads) :
           /\ downloads[i].history[Len(downloads[i].history)] = "failed"
           /\ downloads[i].file_size = MAX_UPLOAD_SIZE_BYTES + 1
    /\ \E r \in Presses :
           /\ req[r].file_size = MAX_UPLOAD_SIZE_BYTES
           /\ req[r].pc = "completed"
           /\ Invocations(req[r].calls, "upload") = 1

NoReversibleId(url) ==
    \/ get_platform_name(url) \notin {"YouTube", "Twitter/X"}
    \/ extract_platform_id(url) = NoId
    \/ Len(PlatformShort(get_platform_name(url))) + 1 + Len(extract_platform_id(url))
           > PAYLOAD_LIMIT

\* C17: the buttons of a keyboard shown for a URL without a reversible
\* identifier carry the payload 'hash:' + 12 hex digits of the URL's MD5,
\* never the URL, and the cache maps that hash to the URL once they are shown
C17_HashFallback ==
    [][\A b \in issued' \ issued :
           NoReversibleId(b.url) =>
               /\ Len(b.data) = 3
               /\ b.data[2] = "hash"
               /\ b.data[3] = Md5Hex12(b.url)
               /\ Len(b.data[3]) = 12
               /\ b.data[3] \in DOMAIN _url_cache'
               /\ _url_cache'[b.data[3]] = b.url]_vars

\* the keyboards of a playlist URL (no ID to extract) and of a status URL
\* whose ID payload exceeds the budget are shown, and the cache holds both
C17_Witness ==
    /\ \E b \in issued : b.url = U_yt_list /\ b.data[2] = "hash"
    /\ \E b \in issued : b.url = U_tw_long /\ b.data[2] = "hash"
    /\ Md5Hex12(U_yt_list) \in DOMAIN _url_cache
    /\ Md5Hex12(U_tw_long) \in DOMAIN _url_cache

\* the source offers video, and only at 480p
Only480p(formats) ==
    /\ \E f \in formats : f.video
    /\ \A f \in formats : f.video => f.height = 480

\* C18: with the selector h720 on a source whose only video streams are
\* 480p, the download does not fail for want of a 720p stream: the
\* expression selects a 480p stream, and nothing above 720p
C18_FallbackTo480 ==
    (/\ selection.result # ""
     /\ selection.quality_selector = HeightSelector(720)
     /\ Only480p(selection.formats)) =>
        /\ selection.result = "downloaded"
        /\ \E f \in selection.selected : f.video /\ f.height = 480
        /\ \A f \in selection.selected : f \in selection.formats /\ f.height <= 720

\* the source offers one combined 480p stream: the first alternative
\* (video-only plus audio-only) yields nothing and the second selects it
C18_Witness ==
    /\ selection.result = "downloaded"
    /\ selection.quality_selector = HeightSelector(720)
    /\ selection.formats = {Stream(480, TRUE, TRUE)}
    /\ Alternative(selection.formats, selection.format_string[1]) = {}
    /\ selection.selected = {Stream(480, TRUE, TRUE)}

\* C19: the expression download_media builds for a selector it knows is a
\* function of the selector and has more than one alternative
C19_MultipleAlternatives ==
    selection.result \notin {"", "ValueError"} =>
        /\ selection.format_string = FormatString(selection.quality_selector)
        /\ Len(selection.format_string) >= 2

C21_HandlerCleanup ==
    [][\A r \in Presses :
           (req[r].pc = "finally" /\ req'[r].pc = "done") =>
               req[r].created \cap disk' = {}]_vars

\* the step delivers a downloading event with a known, non-zero total to a
\* scheduler that accepts updates
KnownTotalEvent ==
    /\ stream'.event.status = "downloading"
    /\ stream'.event.total_bytes # 0
    /\ stream'.loop_ok

\* the percentage of the event the step delivers
EventPercentage == Percentage(stream'.event.downloaded_bytes, stream'.event.total_bytes)

\* the step schedules an update
Scheduled == edits'.count = edits.count + 1

\* the step records the update it schedules
Recorded ==
    /\ last_update_time' = now'
    /\ last_percentage' = EventPercentage
    /\ edits'.last = EventPercentage

C24_NothingRaised == ~stream.raised

\* C25: a downloading event without a total, an error event, and a
\* downloading event that the emit rule does not pass schedule nothing and
\* leave last_update_time and last_percentage as they were
C25_NoEffect ==
    [][(\/ stream'.event.status = "error"
        \/ stream'.event.status = "downloading" /\ stream'.event.total_bytes = 0
        \/ /\ stream'.event.status = "downloading"
           /\ stream'.event.total_bytes # 0
           /\ last_percentage # -1
           /\ \/ now' - last_update_time <= throttle_interval_ticks
              \/ Abs(EventPercentage - last_percentage) < percentage_throttle
           /\ EventPercentage # 100 \/ last_percentage = 100)
       => UNCHANGED <<edits, last_update_time, last_percentage>>]_vars

\* after earlier updates an event without a total came more than 1.5 s
\* after the last update and scheduled nothing
C25_Witness ==
    /\ stream.event.status = "downloading"
    /\ stream.event.total_bytes = 0
    /\ edits.count >= 1
    /\ last_percentage = edits.last
    /\ now - last_update_time > throttle_interval_ticks

\* C26: in process_and_download a status is persisted before the stage it
\* announces: 'download_started' before the download is invoked, the title
\* only after the download returned, 'conversion_started' and then
\* 'converting' before the conversion is invoked; for a selector other than
\* gif no conversion status is persisted and no conversion invoked
C26_PersistBeforeStage ==
    /\ \A r \in Presses :
           (InFlight(r) /\ req[r].download_record_id # 0) =>
               /\ Invocations(req[r].calls, "download_media") > 0 =>
                      /\ Len(History(r)) >= 2
                      /\ History(r)[2] = "download_started"
               /\ downloads[req[r].download_record_id].title =>
                      /\ Invocations(req[r].calls, "download_media") = 1
                      /\ req[r].pc \notin {"download_started", "downloading",
                                           "download_done", "title"}
                      /\ req[r].cause \notin {"DownloaderError", "ValueError"}
               /\ Invocations(req[r].calls, "convert_to_gif") > 0 =>
                      /\ req[r].selector = "gif"
                      /\ downloads[req[r].download_record_id].title
                      /\ Len(History(r)) >= 4
                      /\ SubSeq(History(r), 3, 4) = <<"conversion_started", "converting">>
               /\ req[r].selector # "gif" =>
                      \A c \in {"convert_to_gif", "palettegen", "paletteuse"} :
                          Invocations(req[r].calls, c) = 0
    /\ \A i \in 1..Len(downloads) :
           downloads[i].selector # "gif" =>
               \A k \in 1..Len(downloads[i].history) :
                   downloads[i].history[k] \notin {"conversion_started", "converting"}

\* the conversion of a gif request has been invoked with both statuses
\* persisted, and an earlier request for a video ended 'completed'
C26_Witness ==
    /\ \E r \in Presses :
           /\ req[r].pc = "pass1"
           /\ req[r].calls = <<"download_media", "convert_to_gif">>
           /\ History(r) = <<"requested", "download_started", "conversion_started",
                             "converting">>
    /\ \E i \in 1..Len(downloads) :
           /\ downloads[i].selector = "best"
           /\ downloads[i].history = <<"requested", "download_started", "upload_started",
                                       "completed">>

\* C27: process_and_download persists none of 'upload_started',
\* 'completed' and 'failed'; 'upload_started' is persisted after
\* process_and_download returned and before the upload begins, 'completed'
\* right after 'upload_started' and after the upload returned
C27_CallerPersistsUpload ==
    /\ \A r \in Presses :
           (InFlight(r) /\ req[r].download_record_id # 0) =>
               /\ (~req[r].returned /\ req[r].pc \notin {"finally"}) =>
                      \A k \in 1..Len(History(r)) :
                          History(r)[k] \notin {"upload_started", "completed", "failed"}
               /\ Invocations(req[r].calls, "upload") > 0 =>
                      /\ req[r].returned
                      /\ \E k \in 1..Len(History(r)) : History(r)[k] = "upload_started"
               /\ History(r)[Len(History(r))] = "completed" =>
                      /\ Invocations(req[r].calls, "upload") = 1
                      /\ req[r].error = ""
                      /\ req[r].pc \in {"delete_status", "finally"}
    /\ \A i \in 1..Len(downloads) :
           \A k \in 1..Len(downloads[i].history) :
               downloads[i].history[k] = "completed" =>
                   /\ k > 1
                   /\ downloads[i].history[k - 1] = "upload_started"

\* the upload of a request returned and 'completed' was persisted after
\* 'upload_started'
C27_Witness ==
    \E r \in Presses :
        /\ req[r].pc = "delete_status"
        /\ req[r].returned
        /\ Invocations(req[r].calls, "upload") = 1
        /\ History(r) = <<"requested", "download_started", "upload_started", "completed">>

\* C28: at the check of the final artifact process_and_download raises a
\* ServiceError (whose text, 'Processed media file not found for record
\* <id>.', names the record) and returns nothing when the path is unset or
\* the file is not on disk, and returns the path when the file is on disk
C28_FinalArtifactCheck ==
    [][\A r \in Presses :
           (req[r].pc = "processed" /\ req'[r].pc # "processed") =>
               IF req[r].processed_path = NoPath \/ req[r].processed_path \notin disk
               THEN /\ req'[r].pc = "service_error"
                    /\ req'[r].error = "ServiceError"
                    /\ req'[r].cause = "ServiceError"
                    /\ ~req'[r].returned
                    /\ req'[r].final_media_path = NoPath
               ELSE /\ req'[r].returned
                    /\ req'[r].final_media_path = req[r].processed_path
                    /\ req'[r].final_media_path \in disk']_vars

\* the artifact of a request was gone at the check (another request for the
\* same video removed it) and the ServiceError was raised
C28_Witness ==
    \E r \in Presses :
        /\ req[r].pc = "service_error"
        /\ req[r].cause = "ServiceError"
        /\ req[r].processed_path # NoPath
        /\ req[r].processed_path \notin disk
        /\ ~req[r].returned

\* C29: the executor raises its failures as DownloaderError (download_media)
\* and ConversionError (convert_to_gif).  The ValueError of an unknown
\* selector and the FileNotFoundError of a missing input are raised by no
\* step of process_and_download other than these two calls, so no request
\* fails with one of them
C29_ExecutorTaxonomy ==
    \A r \in Presses : req[r].cause \notin {"ValueError", "FileNotFoundError"}

\* C30: once the extractor has written its file, download_media takes the
\* first existing file among the reported path, the filename reconstructed
\* from the output template and the known extensions of the mode, in that
\* order, and fails only when none of them exists
C30_PathStrategies ==
    \A r \in Presses :
        LET q == req[r]
            extensions == ProbeExtensions(q.selector)
            named == (IF q.outcome.reported # "" THEN <<q.outcome.reported>> ELSE <<>>)
                     \o <<q.outcome.prepared>> \o extensions
            existing == {i \in 1..Len(named) : Path(q.url, named[i]) \in disk}
        IN  (q.pc = "download_done" /\ q.outcome.kind = "written") =>
                q.final_file_path =
                    IF existing = {} THEN NoPath
                    ELSE Path(q.url, named[CHOOSE i \in existing : \A j \in existing : i <= j])

\* C31: a conversion step that finds no ffmpeg, sees a pass exit non-zero
\* or finds no output after pass 2 exited zero ends in ConversionError, the
\* message of a failed pass carrying at most DIAG_PREFIX characters of the
\* diagnostic output; pass 2 starts only after pass 1 exited zero; and after
\* a failure the GIF path is not on disk
C31_ConversionFailures ==
    [][\A r \in Presses :
          LET q == req[r]
              after == req'[r]
              gif_path == GifPath(q.downloaded_path)
              failed == after.pc = "service_error" /\ after.cause = "ConversionError"
          IN  (q.pc \in {"pass1", "pass2"} /\ after.pc # q.pc) =>
                  /\ after.ffmpeg.returncode = -1 => failed
                  /\ after.ffmpeg.returncode = 1 =>
                         failed /\ after.ffmpeg.message <= DIAG_PREFIX
                  /\ (q.pc = "pass2" /\ after.ffmpeg.returncode = 0) =>
                         IF gif_path \in disk' THEN after.pc = "processed" ELSE failed
                  /\ after.pc = "pass2" => after.ffmpeg.returncode = 0
                  /\ after.calls # q.calls /\ after.calls[Len(after.calls)] = "paletteuse" =>
                         q.pc = "pass2" /\ q.ffmpeg.returncode = 0
                  /\ after.pc = "service_error" => gif_path \notin disk']_vars

\* pass 2 failed with more diagnostic output than the message carries
C31_Witness ==
    \E r \in Presses :
        /\ req[r].pc = "service_error"
        /\ req[r].cause = "ConversionError"
        /\ req[r].calls # <<>>
        /\ req[r].calls[Len(req[r].calls)] = "paletteuse"
        /\ req[r].ffmpeg = [returncode |-> 1, message |-> DIAG_PREFIX]

\* C32: a get_video_info call that does not return an info_dict with formats
\* raises DownloaderError; unavailable and private content have their own
\* messages, and the message of every other failure names the class of the
\* underlying error
C32_InfoErrors ==
    LET extractor == info.extractor
        class == CASE extractor.kind = "raises" -> extractor.class
                   [] extractor.kind = "None" -> "TypeError"
                   [] OTHER -> "DownloaderError"
        named == \E i \in 1..Len(info.message) : info.message[i] = class
        own == {<<"This video is unavailable.">>, <<"This is a private video.">>}
    IN  info.returned =>
            IF extractor.kind = "info_dict" /\ extractor.formats # {}
            THEN info.raised = ""
            ELSE /\ info.raised = "DownloaderError"
                 /\ info.message \in own \/ named
                 /\ info.message \in own => extractor.class = "DownloadError"

C34_OneRecord ==
    [][\A r \in Presses :
          LET q == req[r]
              after == req'[r]
              available == /\ after.error # "Exception"
                           /\ ~(after.status_text = "untracked" /\ after.cause = "")
          IN  /\ (q.pc = "idle" /\ after.pc # "idle" /\ available
                  /\ parse_download_callback(after.data, _url_cache).ok) =>
                      /\ downloads' = Append(downloads, NewRow(after.url, after.selector))
                      /\ after.download_record_id = Len(downloads')
                      /\ after.pc = "download_started"
                      /\ after.calls = <<>>
              /\ (q.pc \notin {"idle", "done"} /\ after # q) =>
                      /\ Len(downloads') = Len(downloads)
                      /\ \A i \in 1..Len(downloads) :
                             downloads'[i] # downloads[i] => i = q.download_record_id]_vars

\* C35: again and again every request that has a record has finished with
\* 'completed' or 'failed' as the last persisted status of its record, or the
\* state store refused one of its writes (a finished request stays finished,
\* so each such request eventually reaches that status); the error handlers
\* persist 'failed' when process_and_download raised or the upload failed;
\* and the handler never finishes with the record in another status
C35_EventuallyTerminal ==
    /\ []<>(\A r \in Presses :
               req[r].download_record_id # 0 =>
                   /\ req[r].pc = "done"
                   /\ req[r].refused \/ History(r)[Len(History(r))] \in Terminal)
    /\ [][\A r \in Presses :
             /\ (req[r].pc \in {"service_error", "telegram_error"}
                 /\ req'[r].pc # req[r].pc
                 /\ req[r].download_record_id # 0 /\ ~req'[r].refused) =>
                    downloads'[req[r].download_record_id].history
                        = Append(History(r), "failed")
             /\ (req'[r].pc = "done" /\ req[r].pc # "done"
                 /\ req[r].download_record_id # 0 /\ ~req[r].refused) =>
                    History(r)[Len(History(r))] \in Terminal]_vars

\* an upload failed, the store took every write, and the handler finished
\* with the record 'failed'
C35_Witness ==
    \E r \in Presses :
        /\ req[r].pc = "done"
        /\ req[r].download_record_id # 0
        /\ ~req[r].refused
        /\ History(r)[Len(History(r))] = "failed"
        /\ History(r)[Len(History(r)) - 1] = "upload_started"

C37_DeletedOnlyCompleted ==
    \A r \in Presses :
        req[r].status_text = "deleted" =>
            /\ req[r].download_record_id # 0
            /\ History(r)[Len(History(r))] = "completed"

C39_EditsInOrder ==
    /\ [][message'.shown >= message.shown]_vars
    /\ []((message.ready = <<>> /\ message.in_flight = {}) =>
              message.shown = Len(message.scheduled))

\* C40: with a selector h<N> every video stream that download_media selects
\* is at most N high, whatever the source offers
C40_HeightCap ==
    (/\ selection.result = "downloaded"
     /\ selection.quality_selector \in {HeightSelector(h) : h \in Heights}) =>
        \A f \in selection.selected :
            f.video => f.height <= SelectorHeight(selection.quality_selector)

=============================================================================
